---------------------------- MODULE Spec2Model ----------------------------
(* Telegram media scheduler bot (src/index.js): the two media pools, the   *)
(* schedule registry with its node-schedule jobs, the per-chat delivery    *)
(* tracker and the handlers that change them.                              *)
EXTENDS Integers, Sequences, FiniteSets, TLC

(***************************************************************************)
(* Bounds of the model                                                     *)
(***************************************************************************)
\* file ids per media kind: videos carry ids 1..NumIds, images NumIds+1..2*NumIds
NumIds == 2
\* intervals a user may type: 1..MaxInterval (and the invalid 0, -1, "abc")
MaxInterval == 2
\* the clock (new Date()) runs 0..MaxClock
MaxClock == 2
\* selections kept in a chat's history beyond one per candidate
MaxExtra == 2
\* entries of a comma list in a multi-delete command: 2..MaxList
MaxList == 2

Chats == {"chat1", "chat2"}
MediaTypes == {"videos", "images", "mix"}
VideoIds == 1..NumIds
ImageIds == (NumIds + 1)..(NumIds + NumIds)
Admin == "admin"

VARIABLES
  videos,             \* let videos            (line 48)
  images,             \* let images            (line 49)
  schedules,          \* let schedules: chatId -> job handle (line 50)
  scheduleData,       \* let scheduleData: chatId -> {interval, mediaType, createdAt} (line 51)
  sentMediaTracking,  \* let sentMediaTracking: chatId -> Set of positions (line 54)
  videosFile,         \* data/videos.json
  imagesFile,         \* data/images.json
  schedulesFile,      \* data/schedules.json
  jobs,               \* node-schedule's armed jobs: [id, chatId, interval, mediaType]
  session,            \* ctx.session.selectedMediaType per chat ("none" when unset)
  now,                \* new Date()
  reply,              \* what the last handler answered or logged: [chat, msg]
  sent,               \* dispatch calls (sendVideo/sendPhoto) made by the last step
  hist,               \* history: selections of a chat since its tracker was empty
  steady,             \* history: pools and selector unchanged since hist began
  cycleIds,           \* history: ids delivered to a chat since its tracker was empty
  stopped,            \* history: chats whose stop completed, no schedule set since
  replaced,           \* history: chats whose last schedule call replaced a schedule
  failed,             \* history: a write has failed since the process started
  asked,              \* history: what the last delete command asked for
  fired,              \* history: per chat, the minute its timer was armed or last fired
  rebooted            \* history: chats with deliveries before the last start, not stopped since

pvars == <<videos, images, schedules, scheduleData, sentMediaTracking,
           videosFile, imagesFile, schedulesFile, jobs, session, now, reply, sent>>
gvars == <<hist, steady, cycleIds, stopped, replaced, failed, asked, fired, rebooted>>
vars == <<videos, images, schedules, scheduleData, sentMediaTracking,
          videosFile, imagesFile, schedulesFile, jobs, session, now, reply, sent,
          hist, steady, cycleIds, stopped, replaced, failed, asked, fired, rebooted>>

(***************************************************************************)
(* JavaScript objects as functions on their key set                        *)
(***************************************************************************)
EmptyObj == [k \in {} |-> k]
Put(obj, k, v) == [x \in (DOMAIN obj) \cup {k} |-> IF x = k THEN v ELSE obj[x]]
\* a delete that leaves the key in place
DeleteNothing(obj, k) == obj
Delete(obj, k) == [x \in (DOMAIN obj) \ {k} |-> obj[x]]
Has(obj, k) == k \in DOMAIN obj

Video(id) == [id |-> id, type |-> "video"]
Image(id) == [id |-> id, type |-> "image"]

RECURSIVE FilterUntracked(_, _, _)
\* mediaList.filter((media, index) => !tracked.has(index)); i is the 0-based index
FilterUntracked(mediaList, tracked, i) ==
  IF i >= Len(mediaList) THEN <<>>
  ELSE (IF i \notin tracked THEN <<mediaList[i + 1]>> ELSE <<>>)
         \o FilterUntracked(mediaList, tracked, i + 1)

\* Array.prototype.indexOf: first 0-based position of the element, -1 if absent
IndexOf(list, x) ==
  IF \E i \in 1..Len(list) : list[i] = x
  THEN (CHOOSE i \in 1..Len(list) :
          list[i] = x /\ \A k \in 1..(i - 1) : list[k] # x) - 1
  ELSE -1

\* Array.prototype.findIndex(e => e.id === id)
FindIndexById(list, id) ==
  IF \E i \in 1..Len(list) : list[i].id = id
  THEN (CHOOSE i \in 1..Len(list) :
          list[i].id = id /\ \A k \in 1..(i - 1) : list[k].id # id) - 1
  ELSE -1

\* Array.prototype.splice(index, 1): the list without its 0-based position index
Splice(list, index) ==
  IF index < 0 \/ index >= Len(list) THEN list
  ELSE SubSeq(list, 1, index) \o SubSeq(list, index + 2, Len(list))

\* a save that never reaches the file
WriteJsonSyncSkipped(file, data, ok) == file

\* fs.writeJsonSync(file, data): the new content of the file; ok = FALSE when it throws
WriteJsonSync(file, data, ok) == IF ok THEN data ELSE file

(***************************************************************************)
(* Inputs of the handlers                                                  *)
(***************************************************************************)
\* a text typed where a number is expected, by what the two conversions of the
\* code make of it: nan is isNaN(text), pnan is isNaN(parseInt(text)), val is
\* parseInt(text) when that is a number
Token(n) == [nan |-> FALSE, pnan |-> FALSE, val |-> n]
\* a word: isNaN("abc") is true and parseInt("abc") is NaN
NaNToken == [nan |-> TRUE, pnan |-> TRUE, val |-> 0]
\* the empty or blank text: isNaN("") is false (Number("") is 0) and parseInt("")
\* is NaN
BlankToken == [nan |-> FALSE, pnan |-> TRUE, val |-> 0]
\* the text of an interval message: "-1", "0", "1", ..., a word, or blank
IntervalTexts == {Token(n) : n \in -1..MaxInterval} \cup {NaNToken, BlankToken}
\* an index typed in a delete command: -1 .. one past the largest pool, a word,
\* or blank
IndexTexts == {Token(n) : n \in -1..(NumIds + 1)} \cup {NaNToken, BlankToken}

\* an answer (ctx.reply) or a log line of a handler
Msg(chat, msg) ==
  [chat |-> chat, msg |-> msg, pool |-> "none", interval |-> 0, mediaType |-> "none"]
\* the admin's answer of a handler of one pool
PoolMsg(pool, msg) == [Msg(Admin, msg) EXCEPT !.pool = pool]
\* 'Scheduled! I will send <mediaType> every <interval> minutes.' (line 608)
ScheduledMsg(chat, interval, mediaType) ==
  [Msg(chat, "scheduled") EXCEPT !.interval = interval, !.mediaType = mediaType]

(***************************************************************************)
(* getNextUnsentMedia (lines 77-101)                                       *)
(***************************************************************************)
\* the unsent entries: mediaList.filter((media, index) => !tracked.has(index))
UnsentMedia(tracked, mediaList) ==
  FilterUntracked(mediaList, tracked, 0)

\* the number of entries Math.floor(Math.random() * n) draws from
DrawSize(tracking, chatId, mediaList) ==
  LET tracked == IF Has(tracking, chatId) THEN tracking[chatId] ELSE {}
      unsent  == UnsentMedia(tracked, mediaList)
  IN  IF Len(unsent) = 0 THEN Len(mediaList) ELSE Len(unsent)

\* the exhaustion branch (lines 87-91): clear the set, return any entry of the list
ExhaustedDraw(tracking, chatId, mediaList, r) ==
  [tracking |-> Put(tracking, chatId, {}),
   media    |-> mediaList[r + 1]]

\* UnsentDraw without line 98: the position is not marked
UnsentDrawNoMark(tracking, chatId, mediaList, unsent, r) ==
  [tracking |-> tracking, media |-> unsent[r + 1]]

\* the normal branch (lines 93-100): draw an unsent entry and mark its position
UnsentDraw(tracking, chatId, mediaList, unsent, r) ==
  LET selectedMedia == unsent[r + 1]
      index         == IndexOf(mediaList, selectedMedia)
  IN  [tracking |-> Put(tracking, chatId, tracking[chatId] \cup {index}),
       media    |-> selectedMedia]

\* r is the value of Math.floor(Math.random() * length), 0 <= r < DrawSize
GetNextUnsentMedia(tracking, chatId, mediaList, r) ==
  LET t0     == IF Has(tracking, chatId) THEN tracking ELSE Put(tracking, chatId, {})
      unsent == UnsentMedia(t0[chatId], mediaList)
  IN  IF Len(unsent) = 0
      THEN ExhaustedDraw(t0, chatId, mediaList, r)
      ELSE UnsentDraw(t0, chatId, mediaList, unsent, r)

(***************************************************************************)
(* createScheduledJob (lines 104-162)                                      *)
(***************************************************************************)
\* a handle for the job scheduleJob returns: the least id no armed job carries
NewJobId(armed) == CHOOSE n \in 0..Cardinality(armed) : \A j \in armed : j.id # n

\* a cancel() that stops nothing
CancelNothing(armed, handle) == armed

\* job.cancel(): the armed jobs without the job of that handle
Cancel(armed, handle) == {j \in armed : j.id # handle}

\* createScheduledJob without lines 106-108: the running job is not cancelled
CreateScheduledJobNoCancel(st, chatId, interval, mediaType, t, ok) ==
  LET id    == NewJobId(st.jobs)
      job   == [id |-> id, chatId |-> chatId, interval |-> interval,
                mediaType |-> mediaType]
      data  == Put(st.scheduleData, chatId,
                   [interval |-> interval, mediaType |-> mediaType, createdAt |-> t])
  IN  [schedules     |-> Put(st.schedules, chatId, id),
       scheduleData  |-> data,
       jobs          |-> st.jobs \cup {job},
       schedulesFile |-> WriteJsonSync(st.schedulesFile, data, ok)]

\* st = [schedules, scheduleData, jobs, schedulesFile]; t is new Date(); ok is
\* whether saveScheduleData returns
CreateScheduledJob(st, chatId, interval, mediaType, t, ok) ==
  LET live  == IF Has(st.schedules, chatId)
               THEN Cancel(st.jobs, st.schedules[chatId]) ELSE st.jobs
      id    == NewJobId(st.jobs)
      job   == [id |-> id, chatId |-> chatId, interval |-> interval,
                mediaType |-> mediaType]
      data  == Put(st.scheduleData, chatId,
                   [interval |-> interval, mediaType |-> mediaType, createdAt |-> t])
  IN  [schedules     |-> Put(st.schedules, chatId, id),
       scheduleData  |-> data,
       jobs          |-> live \cup {job},
       schedulesFile |-> WriteJsonSync(st.schedulesFile, data, ok)]

SchedState == [schedules |-> schedules, scheduleData |-> scheduleData,
               jobs |-> jobs, schedulesFile |-> schedulesFile]

SetSchedState(st) ==
  /\ schedules' = st.schedules
  /\ scheduleData' = st.scheduleData
  /\ jobs' = st.jobs
  /\ schedulesFile' = st.schedulesFile

\* the candidate list of a job's tick (lines 114-127)
MediaToSend(mediaType) ==
  CASE mediaType = "videos" -> videos
    [] mediaType = "images" -> images
    [] mediaType = "mix"    -> videos \o images
    [] OTHER                -> <<>>

\* a rejected dispatch that takes the job down with it
DispatchFailedCancels(armed, job) == armed \ {job}

\* the .catch of sendVideo/sendPhoto (lines 137-139, 143-145): console.error
\* only, the armed jobs stay as they are
DispatchFailed(armed, job) == armed

\* a tick without media that starts the chat's cycle afresh
NoMediaClears(tracking, chatId) == Put(tracking, chatId, {})

\* the else branch (lines 147-149): console.log only, the tracker stays as it is
NoMedia(tracking, chatId) == tracking

\* the callback of an armed job (lines 111-150); delivered is whether the
\* promise of sendVideo/sendPhoto resolves
TickOutcome(job, r, delivered) ==
  LET mediaToSend == MediaToSend(job.mediaType)
      res == GetNextUnsentMedia(sentMediaTracking, job.chatId, mediaToSend, r)
  IN  /\ job \in jobs
      /\ IF Len(mediaToSend) > 0
         THEN /\ r < DrawSize(sentMediaTracking, job.chatId, mediaToSend)
              /\ sentMediaTracking' = res.tracking
              /\ sent' = {[chat |-> job.chatId, id |-> res.media.id,
                           type |-> res.media.type]}
              /\ reply' = Msg(job.chatId, IF delivered THEN "sending"
                                          ELSE "send_error")
              /\ jobs' = IF delivered THEN jobs ELSE DispatchFailed(jobs, job)
         ELSE /\ r = 0
              /\ delivered
              /\ sent' = {}
              /\ reply' = Msg(job.chatId, "no_media")
              /\ sentMediaTracking' = NoMedia(sentMediaTracking, job.chatId)
              /\ UNCHANGED jobs
      /\ UNCHANGED <<videos, images, schedules, scheduleData, videosFile,
                     imagesFile, schedulesFile, session, now>>

\* a tick whose dispatch is delivered
Tick(job, r) == TickOutcome(job, r, TRUE)

\* what a tick logs
TickMsgs == {"sending", "send_error", "no_media"}

(***************************************************************************)
(* Admin handlers on the pools                                             *)
(***************************************************************************)
\* the frame of a handler that touches one pool at most
PoolFrame ==
  /\ sent' = {}
  /\ UNCHANGED <<schedules, scheduleData, sentMediaTracking, schedulesFile,
                 jobs, session, now>>

\* an add without the findIndex check of lines 210-217
AddMediaUnchecked(pool, entry) ==
  [pool |-> Append(pool, entry), msg |-> "added", save |-> TRUE]

\* lines 209-227 and 243-261: reject an id the pool holds, else push
AddMedia(pool, entry) ==
  IF FindIndexById(pool, entry.id) # -1
  THEN [pool |-> pool, msg |-> "exists", save |-> FALSE]
  ELSE [pool |-> Append(pool, entry), msg |-> "added", save |-> TRUE]

\* bot.on('video') (lines 201-230)
OnVideo(isAdmin, videoId, ok) ==
  LET res == AddMedia(videos, Video(videoId))
  IN  /\ PoolFrame
      /\ UNCHANGED <<images, imagesFile>>
      /\ IF ~isAdmin
         THEN /\ reply' = PoolMsg("videos", "not_admin")
              /\ UNCHANGED <<videos, videosFile>>
         ELSE /\ videos' = res.pool
              /\ videosFile' = IF res.save
                               THEN WriteJsonSync(videosFile, res.pool, ok)
                               ELSE videosFile
              /\ reply' = PoolMsg("videos", IF res.save /\ ~ok THEN "write_error"
                                        ELSE res.msg)

\* bot.on('photo') (lines 233-264)
OnPhoto(isAdmin, photoId, ok) ==
  LET res == AddMedia(images, Image(photoId))
  IN  /\ PoolFrame
      /\ UNCHANGED <<videos, videosFile>>
      /\ IF ~isAdmin
         THEN /\ reply' = PoolMsg("images", "not_admin")
              /\ UNCHANGED <<images, imagesFile>>
         ELSE /\ images' = res.pool
              /\ imagesFile' = IF res.save
                               THEN WriteJsonSync(imagesFile, res.pool, ok)
                               ELSE imagesFile
              /\ reply' = PoolMsg("images", IF res.save /\ ~ok THEN "write_error"
                                        ELSE res.msg)

\* lines 327-340 and 352-365: the text after '_' parsed, checked, spliced out
\* a comparison with NaN is false, and splice(NaN, 1) starts at position 0
DeleteOne(pool, text) ==
  IF text.nan
  THEN [pool |-> pool, msg |-> "invalid_command", save |-> FALSE]
  ELSE IF ~text.pnan /\ (text.val < 0 \/ text.val >= Len(pool))
       THEN [pool |-> pool, msg |-> "invalid_index", save |-> FALSE]
       ELSE [pool |-> Splice(pool, IF text.pnan THEN 0 ELSE text.val),
             msg |-> "deleted", save |-> TRUE]

\* bot.command('deletevideo') (lines 321-343)
DeleteVideo(isAdmin, text, ok) ==
  LET res == DeleteOne(videos, text)
  IN  /\ PoolFrame
      /\ UNCHANGED <<images, imagesFile>>
      /\ IF ~isAdmin
         THEN /\ reply' = PoolMsg("videos", "not_admin")
              /\ UNCHANGED <<videos, videosFile>>
         ELSE /\ videos' = res.pool
              /\ videosFile' = IF res.save
                               THEN WriteJsonSync(videosFile, res.pool, ok)
                               ELSE videosFile
              /\ reply' = PoolMsg("videos", IF res.save /\ ~ok THEN "write_error"
                                        ELSE res.msg)

\* bot.command('deleteimage') (lines 346-368)
DeleteImage(isAdmin, text, ok) ==
  LET res == DeleteOne(images, text)
  IN  /\ PoolFrame
      /\ UNCHANGED <<videos, videosFile>>
      /\ IF ~isAdmin
         THEN /\ reply' = PoolMsg("images", "not_admin")
              /\ UNCHANGED <<images, imagesFile>>
         ELSE /\ images' = res.pool
              /\ imagesFile' = IF res.save
                               THEN WriteJsonSync(imagesFile, res.pool, ok)
                               ELSE imagesFile
              /\ reply' = PoolMsg("images", IF res.save /\ ~ok THEN "write_error"
                                        ELSE res.msg)

(***************************************************************************)
(* Multi-delete (lines 371-445 and 448-522)                                *)
(***************************************************************************)
\* what the text after the command parses to: a range "a-b", a comma list,
\* a single index, or nothing
DeleteRequests ==
  {[form |-> "range", a |-> x, b |-> y, items |-> <<>>] : x, y \in IndexTexts}
  \cup {[form |-> "list", a |-> NaNToken, b |-> NaNToken, items |-> its] :
          its \in UNION {[1..n -> IndexTexts] : n \in 2..MaxList}}
  \cup {[form |-> "single", a |-> x, b |-> NaNToken, items |-> <<>>] : x \in IndexTexts}
  \cup {[form |-> "empty", a |-> NaNToken, b |-> NaNToken, items |-> <<>>]}

RECURSIVE Range0(_, _)
\* for (let i = start; i <= end; i++) indicesToDelete.push(i)
Range0(start, end) ==
  IF start > end THEN <<>> ELSE <<start>> \o Range0(start + 1, end)

RECURSIVE ListIndices(_, _)
\* lines 409-414: the 0-based indices of the items that are in range
ListIndices(items, len) ==
  IF items = <<>> THEN <<>>
  ELSE LET idx == Head(items).val - 1
       IN  (IF ~Head(items).pnan /\ idx >= 0 /\ idx < len THEN <<idx>> ELSE <<>>)
             \o ListIndices(Tail(items), len)

RECURSIVE InsertDesc(_, _)
InsertDesc(sorted, x) ==
  IF sorted = <<>> THEN <<x>>
  ELSE IF x >= Head(sorted) THEN <<x>> \o sorted
       ELSE <<Head(sorted)>> \o InsertDesc(Tail(sorted), x)

\* the indices left in the order they were typed
SortNone(list) == list

RECURSIVE SortDesc(_)
\* indicesToDelete.sort((a, b) => b - a)
SortDesc(list) ==
  IF list = <<>> THEN <<>> ELSE InsertDesc(SortDesc(Tail(list)), Head(list))

RECURSIVE SpliceAll(_, _)
\* for (const index of indicesToDelete) pool.splice(index, 1)
SpliceAll(pool, indices) ==
  IF indices = <<>> THEN pool
  ELSE SpliceAll(Splice(pool, Head(indices)), Tail(indices))

\* no delete command was the last step
NoRequest == [form |-> "none", a |-> NaNToken, b |-> NaNToken, items |-> <<>>]
\* the text after '_' of a /deletevideo or /deleteimage command
OneRequest(text) == [form |-> "one", a |-> text, b |-> NaNToken, items |-> <<>>]

\* lines 386-430: the indices to delete, or the reason there are none
IndicesToDelete(len, req) ==
  CASE req.form = "range" ->
         IF req.a.nan \/ req.b.nan
         THEN [ok |-> FALSE, msg |-> "invalid_range_format", indices |-> <<>>]
         ELSE LET start == req.a.val - 1
                  end   == req.b.val - 1
              IN  IF ~req.a.pnan /\ ~req.b.pnan
                     /\ start >= 0 /\ end < len /\ start <= end
                  THEN [ok |-> TRUE, msg |-> "deleted", indices |-> Range0(start, end)]
                  ELSE [ok |-> FALSE, msg |-> "invalid_range", indices |-> <<>>]
    [] req.form = "list" ->
         LET idxs == ListIndices(req.items, len)
         IN  IF Len(idxs) # Len(req.items)
             THEN [ok |-> FALSE, msg |-> "invalid_indices", indices |-> <<>>]
             ELSE [ok |-> TRUE, msg |-> "deleted", indices |-> idxs]
    [] req.form = "single" ->
         IF req.a.nan
         THEN [ok |-> FALSE, msg |-> "invalid_format", indices |-> <<>>]
         ELSE IF ~req.a.pnan /\ req.a.val - 1 >= 0 /\ req.a.val - 1 < len
              THEN [ok |-> TRUE, msg |-> "deleted", indices |-> <<req.a.val - 1>>]
              ELSE [ok |-> FALSE, msg |-> "invalid_index", indices |-> <<>>]
    [] OTHER -> [ok |-> FALSE, msg |-> "usage", indices |-> <<>>]

DeleteMany(pool, req) ==
  IF Len(pool) = 0
  THEN [pool |-> pool, msg |-> "nothing_to_delete", save |-> FALSE]
  ELSE LET sel == IndicesToDelete(Len(pool), req)
       IN  IF ~sel.ok
           THEN [pool |-> pool, msg |-> sel.msg, save |-> FALSE]
           ELSE [pool |-> SpliceAll(pool, SortDesc(sel.indices)),
                 msg |-> "deleted", save |-> TRUE]

\* bot.command('deletevideos') (lines 371-445)
DeleteVideos(isAdmin, req, ok) ==
  LET res == DeleteMany(videos, req)
  IN  /\ PoolFrame
      /\ UNCHANGED <<images, imagesFile>>
      /\ IF ~isAdmin
         THEN /\ reply' = PoolMsg("videos", "not_admin")
              /\ UNCHANGED <<videos, videosFile>>
         ELSE /\ videos' = res.pool
              /\ videosFile' = IF res.save
                               THEN WriteJsonSync(videosFile, res.pool, ok)
                               ELSE videosFile
              /\ reply' = PoolMsg("videos", IF res.save /\ ~ok THEN "write_error"
                                        ELSE res.msg)

\* bot.command('deleteimages') (lines 448-522)
DeleteImages(isAdmin, req, ok) ==
  LET res == DeleteMany(images, req)
  IN  /\ PoolFrame
      /\ UNCHANGED <<videos, videosFile>>
      /\ IF ~isAdmin
         THEN /\ reply' = PoolMsg("images", "not_admin")
              /\ UNCHANGED <<images, imagesFile>>
         ELSE /\ images' = res.pool
              /\ imagesFile' = IF res.save
                               THEN WriteJsonSync(imagesFile, res.pool, ok)
                               ELSE imagesFile
              /\ reply' = PoolMsg("images", IF res.save /\ ~ok THEN "write_error"
                                        ELSE res.msg)

(***************************************************************************)
(* User handlers: media type, interval, stop                               *)
(***************************************************************************)
\* bot.action(['videos', 'images', 'mix']) (lines 561-572)
OnAction(chatId, mediaType) ==
  /\ session' = [session EXCEPT ![chatId] = mediaType]
  /\ reply' = Msg(chatId, "ask_interval")
  /\ sent' = {}
  /\ UNCHANGED <<videos, images, schedules, scheduleData, sentMediaTracking,
                 videosFile, imagesFile, schedulesFile, jobs, now>>

\* an interval nobody can wait for is taken as well
ValidIntervalAny(text) == ~text.nan

\* !isNaN(text) && parseInt(text) > 0 (line 583)
ValidInterval(text) == ~text.nan /\ ~text.pnan /\ text.val > 0

\* a schedule call that begins the chat's cycle anew
ScheduledTrackingReset(tracking, chatId) == [c \in DOMAIN tracking \ {chatId} |-> tracking[c]]

\* createScheduledJob (lines 104-162) has no statement on sentMediaTracking
ScheduledTracking(tracking, chatId) == tracking

\* a selection that stays pending after its schedule was created
KeepSelection(sess, chatId) == sess

\* delete ctx.session.selectedMediaType (line 593)
ClearSelection(sess, chatId) == [sess EXCEPT ![chatId] = "none"]

\* bot.on('text') (lines 575-613)
OnText(chatId, text, ok) ==
  /\ sent' = {}
  /\ UNCHANGED <<videos, images, videosFile, imagesFile, now>>
  /\ sentMediaTracking' = IF session[chatId] # "none" /\ ValidInterval(text)
                           THEN ScheduledTracking(sentMediaTracking, chatId)
                           ELSE sentMediaTracking
  /\ IF session[chatId] # "none" /\ ValidInterval(text)
     THEN /\ SetSchedState(CreateScheduledJob(SchedState, chatId, text.val,
                                              session[chatId], now, ok))
          /\ session' = IF ok THEN ClearSelection(session, chatId) ELSE session
          /\ reply' = IF ok THEN ScheduledMsg(chatId, text.val, session[chatId])
                       ELSE Msg(chatId, "schedule_write_error")
     ELSE /\ reply' = Msg(chatId, IF session[chatId] # "none"
                                  THEN "invalid_interval" ELSE "ignored")
          /\ UNCHANGED <<schedules, scheduleData, jobs, schedulesFile, session>>

\* bot.command('stop') (lines 616-653)
OnStop(chatId, ok) ==
  /\ sent' = {}
  /\ UNCHANGED <<videos, images, videosFile, imagesFile, session, now>>
  /\ IF Has(schedules, chatId)
     THEN /\ jobs' = Cancel(jobs, schedules[chatId])
          /\ schedules' = Delete(schedules, chatId)
          /\ scheduleData' = Delete(scheduleData, chatId)
          /\ schedulesFile' = WriteJsonSync(schedulesFile, scheduleData', ok)
          /\ sentMediaTracking' = IF ok THEN Delete(sentMediaTracking, chatId)
                                  ELSE sentMediaTracking
          /\ reply' = Msg(chatId, IF ok THEN "stopped" ELSE "stop_write_error")
     ELSE IF Has(scheduleData, chatId)
          THEN /\ scheduleData' = Delete(scheduleData, chatId)
               /\ schedulesFile' = WriteJsonSync(schedulesFile, scheduleData', ok)
               /\ sentMediaTracking' = IF ok THEN Delete(sentMediaTracking, chatId)
                                       ELSE sentMediaTracking
               /\ reply' = Msg(chatId, IF ok THEN "stopped_data_only"
                                       ELSE "stop_write_error")
               /\ UNCHANGED <<schedules, jobs>>
          ELSE /\ reply' = Msg(chatId, "nothing_to_stop")
               /\ UNCHANGED <<schedules, scheduleData, schedulesFile, jobs,
                              sentMediaTracking>>

(***************************************************************************)
(* Process start (lines 47-59) and the clock                               *)
(***************************************************************************)
\* a start that arms nothing
RecreateNothing(st, todo, data, t) == st

RECURSIVE Recreate(_, _, _, _)
\* for (const chatId in scheduleData) createScheduledJob(chatId, ...)
Recreate(st, todo, data, t) ==
  IF todo = {} THEN st
  ELSE LET chatId == CHOOSE c \in todo : TRUE
       IN  Recreate(CreateScheduledJob(st, chatId, data[chatId].interval,
                                       data[chatId].mediaType, t, TRUE),
                    todo \ {chatId}, data, t)

\* a start that finds the trackers of the run before
KeptTracking(tracking) == tracking

\* let sentMediaTracking = {} (line 54): memory only, nothing is loaded
FreshTracking(tracking) == EmptyObj

\* the process ends (its memory and timers are gone) and index.js runs again
Restart ==
  LET loaded == [schedules |-> EmptyObj, scheduleData |-> schedulesFile,
                 jobs |-> {}, schedulesFile |-> schedulesFile]
  IN  /\ videos' = videosFile
      /\ images' = imagesFile
      /\ sentMediaTracking' = FreshTracking(sentMediaTracking)
      /\ SetSchedState(Recreate(loaded, DOMAIN schedulesFile, schedulesFile, now))
      /\ session' = [c \in Chats |-> "none"]
      /\ reply' = Msg(Admin, "bot_running")
      /\ sent' = {}
      /\ UNCHANGED <<videosFile, imagesFile, now>>

\* time passes
Advance ==
  /\ now < MaxClock
  /\ now' = now + 1
  /\ reply' = Msg(Admin, "time")
  /\ sent' = {}
  /\ UNCHANGED <<videos, images, schedules, scheduleData, sentMediaTracking,
                 videosFile, imagesFile, schedulesFile, jobs, session>>

(***************************************************************************)
(* Specifications                                                          *)
(***************************************************************************)
\* no timer of the chat was armed since the process started
NeverArmed == [id |-> -1, at |-> -1, tick |-> FALSE]

\* the first start: every file was just created empty (lines 35-45)
Init ==
  /\ videos = <<>>
  /\ images = <<>>
  /\ videosFile = <<>>
  /\ imagesFile = <<>>
  /\ schedules = EmptyObj
  /\ scheduleData = EmptyObj
  /\ schedulesFile = EmptyObj
  /\ sentMediaTracking = EmptyObj
  /\ jobs = {}
  /\ session = [c \in Chats |-> "none"]
  /\ now = 0
  /\ reply = Msg(Admin, "bot_running")
  /\ sent = {}
  /\ hist = [c \in Chats |-> <<>>]
  /\ steady = [c \in Chats |-> TRUE]
  /\ cycleIds = [c \in Chats |-> {}]
  /\ stopped = {}
  /\ replaced = {}
  /\ failed = FALSE
  /\ asked = NoRequest
  /\ fired = [c \in Chats |-> NeverArmed]
  /\ rebooted = {}

(***************************************************************************)
(* History variables: what was selected for a chat since its tracker was   *)
(* last empty.  They are computed from a step and never read by a handler. *)
(***************************************************************************)
TrackedOf(tracking, c) == IF Has(tracking, c) THEN tracking[c] ELSE {}

\* the media selector the armed timers of chat c run with
SelectorsOf(armed, c) == {j.mediaType : j \in {x \in armed : x.chatId = c}}

\* the dispatch calls of the last step that went to chat c
SentTo(msgs, c) == {m \in msgs : m.chat = c}

CandidatesChanged(c) ==
  \/ videos' # videos
  \/ images' # images
  \/ SelectorsOf(jobs', c) # SelectorsOf(jobs, c)

\* the candidate list of chat c's timer, <<>> without one
CandidatesOf(c) ==
  IF SelectorsOf(jobs, c) = {} THEN <<>>
  ELSE MediaToSend(CHOOSE t \in SelectorsOf(jobs, c) : TRUE)

HistStep ==
  /\ hist' = [c \in Chats |->
       IF SentTo(sent', c) # {}
       THEN IF steady[c] /\ Len(hist[c]) < Len(CandidatesOf(c)) + MaxExtra
            THEN Append(hist[c], LET m == CHOOSE x \in SentTo(sent', c) : TRUE
                                 IN  [id |-> m.id, type |-> m.type])
            ELSE hist[c]
       ELSE IF TrackedOf(sentMediaTracking', c) = {} \/ CandidatesChanged(c)
            THEN <<>> ELSE hist[c]]
  /\ steady' = [c \in Chats |->
       IF SentTo(sent', c) # {} THEN steady[c]
       ELSE IF TrackedOf(sentMediaTracking', c) = {} THEN TRUE
            ELSE IF CandidatesChanged(c) THEN FALSE ELSE steady[c]]

CycleStep ==
  cycleIds' = [c \in Chats |->
       IF TrackedOf(sentMediaTracking', c) = {} THEN {}
       ELSE cycleIds[c] \cup {m.id : m \in SentTo(sent', c)}]

ScheduleCalled == reply'.msg \in {"scheduled", "schedule_write_error"}

LifeStep ==
  /\ stopped' = IF reply'.msg \in {"stopped", "stopped_data_only"}
                THEN stopped \cup {reply'.chat}
                ELSE IF ScheduleCalled THEN stopped \ {reply'.chat} ELSE stopped
  /\ replaced' = IF ScheduleCalled
                 THEN IF Has(schedules, reply'.chat)
                      THEN replaced \cup {reply'.chat} ELSE replaced \ {reply'.chat}
                 ELSE IF reply'.msg = "bot_running" THEN {}
                      ELSE replaced \cap DOMAIN schedules'

WriteFailed == reply'.msg \in {"write_error", "schedule_write_error", "stop_write_error"}

FailStep ==
  failed' = IF reply'.msg = "bot_running" THEN FALSE ELSE (failed \/ WriteFailed)

(***************************************************************************)
(* SpecSel: one chat drawing from pools that no admin touches              *)
(***************************************************************************)
Watched == "chat1"

\* a pool as adds in id order leave it: ids first .. first + k - 1
PoolOf(kind(_), first, k) == [i \in 1..k |-> kind(first + i - 1)]

\* a start on the files of an earlier run
InitSel ==
  /\ videosFile \in {PoolOf(Video, 1, k) : k \in 0..NumIds}
  /\ imagesFile \in {PoolOf(Image, NumIds + 1, k) : k \in 0..NumIds}
  /\ videos = videosFile
  /\ images = imagesFile
  /\ schedules = EmptyObj
  /\ scheduleData = EmptyObj
  /\ schedulesFile = EmptyObj
  /\ sentMediaTracking = EmptyObj
  /\ jobs = {}
  /\ session = [c \in Chats |-> "none"]
  /\ now = 0
  /\ reply = Msg(Admin, "bot_running")
  /\ sent = {}
  /\ hist = [c \in Chats |-> <<>>]
  /\ steady = [c \in Chats |-> TRUE]
  /\ cycleIds = [c \in Chats |-> {}]
  /\ stopped = {}
  /\ replaced = {}
  /\ failed = FALSE
  /\ asked = NoRequest
  /\ fired = [c \in Chats |-> NeverArmed]
  /\ rebooted = {}

SelFrame == UNCHANGED <<cycleIds, stopped, replaced, failed, asked, fired, rebooted>>

SelAction == \E m \in MediaTypes : OnAction(Watched, m) /\ HistStep /\ SelFrame
SelText == \E x \in IntervalTexts : OnText(Watched, x, TRUE) /\ HistStep /\ SelFrame
SelStop == OnStop(Watched, TRUE) /\ HistStep /\ SelFrame
\* the history is kept up to MaxExtra selections beyond one per candidate
SelTick ==
  \E j \in jobs, r \in 0..(NumIds + NumIds - 1) :
    /\ Len(hist[j.chatId]) < Len(MediaToSend(j.mediaType)) + MaxExtra
    /\ Tick(j, r)
    /\ HistStep
    /\ SelFrame

NextSel == SelAction \/ SelText \/ SelStop \/ SelTick

SpecSel == InitSel /\ [][NextSel]_vars

Elems(list) == {list[i] : i \in 1..Len(list)}

\* C1: with pools and selector unchanged since the chat's tracker was empty, the
\* first n selections from a candidate list of n entries are pairwise distinct
\* entries of the list, and once n are made they cover the list.
C1_FirstCycleCoversList ==
  \A c \in Chats :
    LET list == CandidatesOf(c)
        n    == Len(list)
        h    == hist[c]
        m    == IF Len(h) < n THEN Len(h) ELSE n
    IN  (steady[c] /\ n > 0) =>
          /\ \A p, q \in 1..m : p # q => h[p] # h[q]
          /\ \A p \in 1..m : h[p] \in Elems(list)
          /\ Len(h) >= n => {h[p] : p \in 1..n} = Elems(list)

\* a chat has drawn a whole candidate list of both pools, one entry per tick
C1_Witness ==
  \E c \in Chats :
    /\ steady[c]
    /\ Len(CandidatesOf(c)) > NumIds
    /\ Len(hist[c]) >= Len(CandidatesOf(c))

\* C2: with pools and selector unchanged, every exhaustion cycle delivers each
\* entry once: selections k*n+1 .. (k+1)*n are a permutation of the list.
C2_EveryCycleIsPermutation ==
  \A c \in Chats :
    LET list == CandidatesOf(c)
        n    == Len(list)
        h    == hist[c]
    IN  (steady[c] /\ n > 0) =>
          \A k \in 0..MaxExtra :
            (k + 1) * n <= Len(h) =>
              {h[p] : p \in (k * n + 1)..((k + 1) * n)} = Elems(list)

(***************************************************************************)
(* SpecChurn: one chat's timer while the admin edits the pools and the     *)
(* chat replaces its schedule                                              *)
(***************************************************************************)
ChurnFrame == UNCHANGED <<hist, steady, stopped, replaced, failed, asked, fired, rebooted>>

ChurnVideo == \E id \in VideoIds : OnVideo(TRUE, id, TRUE) /\ CycleStep /\ ChurnFrame
\* one image is enough to tell the selectors' candidate lists apart
ChurnPhoto == OnPhoto(TRUE, NumIds + 1, TRUE) /\ CycleStep /\ ChurnFrame
ChurnDeleteVideo ==
  \E x \in IndexTexts : DeleteVideo(TRUE, x, TRUE) /\ CycleStep /\ ChurnFrame
ChurnDeleteImage ==
  \E x \in IndexTexts : DeleteImage(TRUE, x, TRUE) /\ CycleStep /\ ChurnFrame
ChurnAction == \E m \in MediaTypes : OnAction(Watched, m) /\ CycleStep /\ ChurnFrame
ChurnText ==
  \E x \in IntervalTexts : OnText(Watched, x, TRUE) /\ CycleStep /\ ChurnFrame
ChurnTick ==
  \E j \in jobs, r \in 0..(NumIds + NumIds - 1) : Tick(j, r) /\ CycleStep /\ ChurnFrame

NextChurn ==
  \/ ChurnVideo \/ ChurnPhoto \/ ChurnDeleteVideo \/ ChurnDeleteImage
  \/ ChurnAction \/ ChurnText \/ ChurnTick

SpecChurn == Init /\ [][NextChurn]_vars

\* C3: whatever the admin adds or deletes and however the chat replaces its
\* schedule between ticks, a tick never delivers an id the chat has received in
\* its current exhaustion cycle while a candidate is still undelivered in it.
C3_NoRepeatBeforeAllDelivered ==
  [][\A c \in Chats : \A m \in SentTo(sent', c) :
       m.id \in cycleIds[c] =>
         \A e \in Elems(CandidatesOf(c)) : e.id \in cycleIds[c]]_vars

(***************************************************************************)
(* Spec: the schedules of two chats: set, replace, stop, tick, restart     *)
(***************************************************************************)
LifeFrame == UNCHANGED <<hist, steady, cycleIds, failed, asked, fired, rebooted>>

\* one image in the pool: timers on "videos" find no media, the others send it
LifePhoto == OnPhoto(TRUE, NumIds + 1, TRUE) /\ LifeStep /\ LifeFrame
\* the watched chat picks any selector and types any text; the chats beside it
\* ask for images at one interval
SelectorsFor(c) == IF c = Watched THEN MediaTypes ELSE {"images"}
TextsFor(c) == IF c = Watched THEN IntervalTexts ELSE {Token(MaxInterval)}

LifeAction ==
  \E c \in Chats : \E m \in SelectorsFor(c) : OnAction(c, m) /\ LifeStep /\ LifeFrame
LifeText ==
  \E c \in Chats : \E x \in TextsFor(c) : OnText(c, x, TRUE) /\ LifeStep /\ LifeFrame
LifeStop == \E c \in Chats : OnStop(c, TRUE) /\ LifeStep /\ LifeFrame
LifeTick == \E j \in jobs, r \in 0..(NumIds + NumIds - 1) : Tick(j, r) /\ LifeStep /\ LifeFrame
LifeRestart == Restart /\ LifeStep /\ LifeFrame

Next == LifePhoto \/ LifeAction \/ LifeText \/ LifeStop \/ LifeTick \/ LifeRestart

Spec == Init /\ [][Next]_vars

JobsOf(c) == {j \in jobs : j.chatId = c}
TickedFor(c) == reply.chat = c /\ reply.msg \in {"sending", "no_media"}

\* C4: once stop has completed for a chat, no timer of that chat is armed, no
\* tick of it fires and nothing is dispatched to it, until a schedule is set.
C4_NoTickAfterStop ==
  \A c \in stopped :
    /\ JobsOf(c) = {}
    /\ ~TickedFor(c)
    /\ SentTo(sent, c) = {}

\* a chat is stopped and the other chat's timer has just fired and dispatched
C4_Witness ==
  \E c \in stopped : \E d \in Chats \ {c} :
    /\ TickedFor(d)
    /\ SentTo(sent, d) # {}

\* C5: a chat has one armed timer at most; the timer of a chat with a schedule
\* is the one its handle names and runs with the registry's interval and
\* selector, which after a schedule call are those of that call.
C5_OneTimerPerChat ==
  \A c \in Chats :
    /\ Cardinality(JobsOf(c)) <= 1
    /\ Has(schedules, c) =>
         /\ Has(scheduleData, c)
         /\ \E j \in JobsOf(c) :
              /\ j.id = schedules[c]
              /\ j.interval = scheduleData[c].interval
              /\ j.mediaType = scheduleData[c].mediaType
    /\ (reply.msg = "scheduled" /\ reply.chat = c) =>
         /\ Has(schedules, c)
         /\ scheduleData[c].interval = reply.interval
         /\ scheduleData[c].mediaType = reply.mediaType
         /\ schedulesFile = scheduleData

\* a chat has just replaced its schedule while the other chat has a timer too
C5_Witness ==
  \E c \in replaced :
    /\ reply.msg = "scheduled" /\ reply.chat = c
    /\ \E d \in Chats \ {c} : JobsOf(d) # {}

\* what stop answers when its write returns
StopMsgs == {"stopped", "stopped_data_only", "nothing_to_stop"}

\* C15: stop on a chat with an active schedule cancels its timer, removes its
\* handle and its entry from the registry in memory and on file and drops its
\* tracker, leaving the other chats alone; stop on a chat with no handle and
\* no entry changes no timer, registry or tracker.
C15_StopClearsScheduleAndTracker ==
  [][\A c \in Chats :
       (reply'.msg \in StopMsgs /\ reply'.chat = c) =>
         /\ Has(schedules, c) =>
              /\ reply'.msg = "stopped"
              /\ jobs' = jobs \ JobsOf(c)
              /\ schedules' = [d \in DOMAIN schedules \ {c} |-> schedules[d]]
              /\ scheduleData' = [d \in DOMAIN scheduleData \ {c} |-> scheduleData[d]]
              /\ schedulesFile' = scheduleData'
              /\ ~Has(sentMediaTracking', c)
              /\ \A d \in Chats \ {c} :
                   /\ Has(sentMediaTracking', d) = Has(sentMediaTracking, d)
                   /\ TrackedOf(sentMediaTracking', d) = TrackedOf(sentMediaTracking, d)
         /\ (~Has(schedules, c) /\ ~Has(scheduleData, c)) =>
              /\ reply'.msg = "nothing_to_stop"
              /\ UNCHANGED <<jobs, schedules, scheduleData, schedulesFile,
                             sentMediaTracking>>]_vars

\* a chat's schedule has just been stopped while the other chat keeps a timer
\* and a tracker with deliveries
C15_Witness ==
  /\ reply.msg = "stopped"
  /\ ~Has(scheduleData, reply.chat)
  /\ \E d \in Chats \ {reply.chat} :
       JobsOf(d) # {} /\ TrackedOf(sentMediaTracking, d) # {}

\* C18: a text that is not a positive number creates no schedule: no timer is
\* armed, nothing is written, and the chat's timer, registry entry and tracker
\* stay as they were; a schedule is only ever set with a positive interval.
C18_InvalidIntervalCreatesNothing ==
  [][/\ reply'.msg \in {"invalid_interval", "ignored"} =>
          UNCHANGED <<jobs, schedules, scheduleData, schedulesFile,
                      sentMediaTracking>>
     /\ reply'.msg = "scheduled" => reply'.interval > 0
     /\ \A j \in jobs' : j.interval > 0
     /\ \A c \in DOMAIN schedulesFile' : schedulesFile'[c].interval > 0]_vars

\* a chat with a timer and deliveries in its tracker has just typed an invalid
\* interval
C18_Witness ==
  /\ reply.msg = "invalid_interval"
  /\ JobsOf(reply.chat) # {}
  /\ TrackedOf(sentMediaTracking, reply.chat) # {}

\* the chats a timer is armed for
ArmedChats == {j.chatId : j \in jobs}

\* C21: the chats with a timer handle are the chats with an entry in the
\* in-memory registry, and they are the chats a timer is armed for, whatever
\* was set, replaced, stopped or restarted.
C21_HandlesMatchRegistry ==
  /\ DOMAIN schedules = DOMAIN scheduleData
  /\ ArmedChats = DOMAIN scheduleData
  /\ \A c \in DOMAIN schedules : \E j \in JobsOf(c) : j.id = schedules[c]

\* the process has just started again with a timer for one chat and none for
\* a chat that was stopped
C21_Witness ==
  /\ reply.msg = "bot_running"
  /\ DOMAIN scheduleData # {}
  /\ stopped \ DOMAIN scheduleData # {}
  /\ replaced = {}

\* C22: a schedule call leaves every tracker as it was, the tracker of the
\* chat that replaces its schedule included; a tracker with deliveries loses
\* them only by a stop, a start, or a tick of the chat's own timer.
C22_ReplaceKeepsTracker ==
  [][/\ reply'.msg = "scheduled" => sentMediaTracking' = sentMediaTracking
     /\ \A c \in Chats :
          (TrackedOf(sentMediaTracking, c) # {}
             /\ ~(TrackedOf(sentMediaTracking, c) \subseteq TrackedOf(sentMediaTracking', c))) =>
            \/ reply'.msg = "bot_running"
            \/ reply'.chat = c /\ reply'.msg \in StopMsgs
            \/ reply'.chat = c /\ reply'.msg \in TickMsgs]_vars

\* a chat with deliveries in its tracker has just replaced its schedule by one
\* with another selector
C22_Witness ==
  \E c \in replaced :
    /\ reply.msg = "scheduled" /\ reply.chat = c
    /\ TrackedOf(sentMediaTracking, c) # {}
    /\ reply.mediaType = "videos"

\* what the text handler answers
TextMsgs == {"scheduled", "invalid_interval", "ignored"}

\* C23: a text creates or replaces a schedule only while a media type is
\* selected in the chat's session, with that media type, and clears the
\* selection; a text without a pending selection changes no schedule; an
\* invalid interval keeps the selection pending.
C23_ScheduleNeedsPendingSelection ==
  [][\A c \in Chats :
       (reply'.chat = c /\ reply'.msg \in TextMsgs) =>
         /\ reply'.msg = "scheduled" =>
              /\ session[c] # "none"
              /\ reply'.mediaType = session[c]
              /\ session'[c] = "none"
         /\ session[c] = "none" =>
              /\ reply'.msg = "ignored"
              /\ UNCHANGED <<jobs, schedules, scheduleData, schedulesFile, session>>
         /\ reply'.msg = "invalid_interval" =>
              /\ session[c] # "none"
              /\ session' = session
         /\ \A d \in Chats \ {c} : session'[d] = session[d]]_vars

\* a chat with a schedule and no pending selection has just sent a text that
\* changed nothing
C23_Witness ==
  /\ reply.msg = "ignored"
  /\ reply.chat = Watched
  /\ session[reply.chat] = "none"
  /\ JobsOf(reply.chat) # {}
  /\ reply.chat \notin replaced

(***************************************************************************)
(* SpecBoot: schedules set and stopped while the clock runs, and restarts  *)
(***************************************************************************)
BootAction ==
  \E c \in Chats : \E m \in SelectorsFor(c) : OnAction(c, m) /\ UNCHANGED gvars
BootText ==
  \E c \in Chats : \E x \in TextsFor(c) : OnText(c, x, TRUE) /\ UNCHANGED gvars
BootStop == \E c \in Chats : OnStop(c, TRUE) /\ UNCHANGED gvars
BootAdvance == Advance /\ UNCHANGED gvars
BootRestart == Restart /\ UNCHANGED gvars

NextBoot == BootAction \/ BootText \/ BootStop \/ BootAdvance \/ BootRestart

SpecBoot == Init /\ [][NextBoot]_vars

\* C6: a start arms one timer for each chat of the persisted registry, with the
\* persisted interval and selector, and no timer for any other chat.
C6_RestartRearmsRegistry ==
  [][reply'.msg = "bot_running" =>
       /\ Cardinality(jobs') = Cardinality(DOMAIN schedulesFile)
       /\ \A j \in jobs' : Has(schedulesFile, j.chatId)
       /\ \A c \in DOMAIN schedulesFile :
            \E j \in jobs' :
              /\ j.chatId = c
              /\ Has(schedules', c) /\ schedules'[c] = j.id
              /\ j.interval = schedulesFile[c].interval
              /\ j.mediaType = schedulesFile[c].mediaType]_vars

\* the process has just started on a registry that holds every chat
C6_Witness ==
  /\ reply.msg = "bot_running"
  /\ DOMAIN schedulesFile = Chats
  /\ Cardinality(jobs) = Cardinality(Chats)

\* C7: a start leaves the persisted registry as it found it, createdAt included.
C7_RestartKeepsRegistry ==
  [][reply'.msg = "bot_running" => schedulesFile' = schedulesFile]_vars

(***************************************************************************)
(* SpecIO: every mutating handler, with writes that may throw              *)
(***************************************************************************)
IOFrame == UNCHANGED <<hist, steady, cycleIds, stopped, replaced, asked, fired, rebooted>>

\* the multi-deletes of one index
SingleRequests == {q \in DeleteRequests : q.form = "single"}

\* one video, one image and one interval are enough for a write to fail on
IOVideo == \E ok \in BOOLEAN : OnVideo(TRUE, NumIds, ok) /\ FailStep /\ IOFrame
IOPhoto == \E ok \in BOOLEAN : OnPhoto(TRUE, NumIds + 1, ok) /\ FailStep /\ IOFrame
IODeleteVideo ==
  \E x \in IndexTexts, ok \in BOOLEAN : DeleteVideo(TRUE, x, ok) /\ FailStep /\ IOFrame
IODeleteImage ==
  \E x \in IndexTexts, ok \in BOOLEAN : DeleteImage(TRUE, x, ok) /\ FailStep /\ IOFrame
IODeleteVideos ==
  \E q \in SingleRequests, ok \in BOOLEAN :
    DeleteVideos(TRUE, q, ok) /\ FailStep /\ IOFrame
IODeleteImages ==
  \E q \in SingleRequests, ok \in BOOLEAN :
    DeleteImages(TRUE, q, ok) /\ FailStep /\ IOFrame
IOAction == \E m \in MediaTypes : OnAction(Watched, m) /\ FailStep /\ IOFrame
IOText ==
  \E ok \in BOOLEAN : OnText(Watched, Token(MaxInterval), ok) /\ FailStep /\ IOFrame
IOStop == \E ok \in BOOLEAN : OnStop(Watched, ok) /\ FailStep /\ IOFrame
IORestart == Restart /\ FailStep /\ IOFrame

NextIO ==
  \/ IOVideo \/ IOPhoto \/ IODeleteVideo \/ IODeleteImage \/ IODeleteVideos
  \/ IODeleteImages \/ IOAction \/ IOText \/ IOStop \/ IORestart

SpecIO == Init /\ [][NextIO]_vars

Durable ==
  /\ videosFile = videos
  /\ imagesFile = images
  /\ schedulesFile = scheduleData

\* C8: when a mutating operation has completed, the file of the collection it
\* changed holds the collection's in-memory value; and as long as no write has
\* failed, all three files hold the in-memory values in every state.
C8_CompletedMutationIsDurable ==
  /\ (reply.msg \in {"added", "deleted"} /\ reply.pool = "videos") =>
       videosFile = videos
  /\ (reply.msg \in {"added", "deleted"} /\ reply.pool = "images") =>
       imagesFile = images
  /\ reply.msg \in {"scheduled", "stopped", "stopped_data_only"} =>
       schedulesFile = scheduleData
  /\ ~failed => Durable

\* no write has failed, both pools hold media and a schedule has just been set
C8_Witness ==
  /\ ~failed
  /\ reply.msg = "scheduled"
  /\ Len(videos) > 0
  /\ Len(images) > 0

\* C9: after a write has failed in a handler, memory holds nothing the files do
\* not: the pool equals its file, the registry equals its file, and every armed
\* timer belongs to a persisted entry.
C9_FailedWriteLeavesNoDivergence ==
  /\ reply.msg = "write_error" => (videosFile = videos /\ imagesFile = images)
  /\ reply.msg \in {"schedule_write_error", "stop_write_error"} =>
       /\ schedulesFile = scheduleData
       /\ \A j \in jobs : Has(schedulesFile, j.chatId)

\* C16: stop on a chat that has an entry in the persisted registry but no timer
\* handle in memory succeeds: the entry leaves the registry in memory and on
\* file, the tracker is dropped, and no timer or entry of another chat changes.
C16_StopWithoutHandleRemovesEntry ==
  [][\A c \in Chats :
       (reply'.msg \in StopMsgs /\ reply'.chat = c
          /\ Has(schedulesFile, c) /\ ~Has(schedules, c)) =>
         /\ reply'.msg # "nothing_to_stop"
         /\ ~Has(schedulesFile', c)
         /\ ~Has(scheduleData', c)
         /\ ~Has(sentMediaTracking', c)
         /\ jobs' = jobs
         /\ \A d \in Chats \ {c} :
              /\ Has(schedulesFile', d) = Has(schedulesFile, d)
              /\ Has(scheduleData', d) = Has(scheduleData, d)]_vars

(***************************************************************************)
(* SpecPool: the admin's adds and deletes on the two pools                 *)
(***************************************************************************)
PoolVideo ==
  \E a \in BOOLEAN, id \in VideoIds : OnVideo(a, id, TRUE) /\ UNCHANGED gvars
PoolPhoto ==
  \E a \in BOOLEAN, id \in ImageIds : OnPhoto(a, id, TRUE) /\ UNCHANGED gvars
PoolDeleteVideo ==
  \E a \in BOOLEAN, x \in IndexTexts : DeleteVideo(a, x, TRUE) /\ UNCHANGED gvars
PoolDeleteImage ==
  \E a \in BOOLEAN, x \in IndexTexts : DeleteImage(a, x, TRUE) /\ UNCHANGED gvars
PoolDeleteVideos ==
  \E a \in BOOLEAN, q \in DeleteRequests : DeleteVideos(a, q, TRUE) /\ UNCHANGED gvars
PoolDeleteImages ==
  \E a \in BOOLEAN, q \in DeleteRequests : DeleteImages(a, q, TRUE) /\ UNCHANGED gvars

NextPool ==
  \/ PoolVideo \/ PoolPhoto \/ PoolDeleteVideo \/ PoolDeleteImage
  \/ PoolDeleteVideos \/ PoolDeleteImages

SpecPool == Init /\ [][NextPool]_vars

UniqueIds(pool) ==
  \A i, k \in 1..Len(pool) : pool[i].id = pool[k].id => i = k

\* C10: an add of an id its pool holds is answered "already exists" and changes
\* neither pool nor file; no pool and no file ever holds an id twice.
C10_DuplicateAddRejected ==
  [][/\ reply'.msg = "exists" =>
          UNCHANGED <<videos, images, videosFile, imagesFile>>
     /\ UniqueIds(videos') /\ UniqueIds(images')
     /\ UniqueIds(videosFile') /\ UniqueIds(imagesFile')]_vars

\* the admin has just sent a video that the full video pool already holds
C10_Witness ==
  /\ reply.msg = "exists"
  /\ reply.pool = "videos"
  /\ Len(videos) = NumIds

(***************************************************************************)
(* SpecDel: the delete commands on pools of up to MaxPool videos           *)
(***************************************************************************)
\* videos a pool holds at most in SpecDel: a delete can leave a gap between
\* two entries that stay
MaxPool == 3

\* a start on the pools an earlier run left
InitDel ==
  /\ videosFile \in {PoolOf(Video, 1, k) : k \in 0..MaxPool}
  /\ imagesFile \in {PoolOf(Image, NumIds + 1, k) : k \in 0..NumIds}
  /\ videos = videosFile
  /\ images = imagesFile
  /\ schedules = EmptyObj
  /\ scheduleData = EmptyObj
  /\ schedulesFile = EmptyObj
  /\ sentMediaTracking = EmptyObj
  /\ jobs = {}
  /\ session = [c \in Chats |-> "none"]
  /\ now = 0
  /\ reply = Msg(Admin, "bot_running")
  /\ sent = {}
  /\ hist = [c \in Chats |-> <<>>]
  /\ steady = [c \in Chats |-> TRUE]
  /\ cycleIds = [c \in Chats |-> {}]
  /\ stopped = {}
  /\ replaced = {}
  /\ failed = FALSE
  /\ asked = NoRequest
  /\ fired = [c \in Chats |-> NeverArmed]
  /\ rebooted = {}

DelFrame ==
  UNCHANGED <<hist, steady, cycleIds, stopped, replaced, failed, fired, rebooted>>

DelVideo ==
  \E id \in 1..MaxPool : OnVideo(TRUE, id, TRUE) /\ asked' = NoRequest /\ DelFrame
DelDeleteVideo ==
  \E x \in IndexTexts : DeleteVideo(TRUE, x, TRUE) /\ asked' = OneRequest(x) /\ DelFrame
DelDeleteImage ==
  \E x \in IndexTexts : DeleteImage(TRUE, x, TRUE) /\ asked' = OneRequest(x) /\ DelFrame
DelDeleteVideos ==
  \E q \in DeleteRequests : DeleteVideos(TRUE, q, TRUE) /\ asked' = q /\ DelFrame
DelDeleteImages ==
  \E q \in DeleteRequests : DeleteImages(TRUE, q, TRUE) /\ asked' = q /\ DelFrame

NextDel ==
  \/ DelVideo \/ DelDeleteVideo \/ DelDeleteImage \/ DelDeleteVideos
  \/ DelDeleteImages

SpecDel == InitDel /\ [][NextDel]_vars

\* a text that is a whole number
IsNumber(text) == ~text.nan /\ ~text.pnan

\* the texts of a multi-delete request
TextsOf(req) ==
  CASE req.form = "range"  -> {req.a, req.b}
    [] req.form = "list"   -> {req.items[i] : i \in 1..Len(req.items)}
    [] req.form = "single" -> {req.a}
    [] OTHER               -> {}

\* the 0-based positions a multi-delete request of 1-based numbers names
Named(req) ==
  CASE req.form = "range"  -> (req.a.val - 1)..(req.b.val - 1)
    [] req.form = "list"   -> {req.items[i].val - 1 : i \in 1..Len(req.items)}
    [] req.form = "single" -> {req.a.val - 1}
    [] OTHER               -> {}

\* the request names a non-empty set of positions of a pool of len entries, each
\* position once
NamesValidSet(req, len) ==
  /\ req.form \in {"range", "list", "single"}
  /\ \A t \in TextsOf(req) : IsNumber(t)
  /\ Named(req) # {}
  /\ \A i \in Named(req) : i >= 0 /\ i < len
  /\ req.form = "list" => Cardinality(Named(req)) = Len(req.items)

RECURSIVE KeepOthers(_, _, _)
\* the entries of pool at the positions from i on that S leaves out, in order
KeepOthers(pool, S, i) ==
  IF i >= Len(pool) THEN <<>>
  ELSE (IF i \in S THEN <<>> ELSE <<pool[i + 1]>>) \o KeepOthers(pool, S, i + 1)

\* C11: a multi-delete that names a set S of valid positions removes the entries
\* at the positions of S and no other, keeps the rest in their order, and saves
\* the pool it leaves.
C11_MultiDeleteRemovesNamed ==
  [][/\ (reply'.pool = "videos" /\ NamesValidSet(asked', Len(videos))) =>
          /\ videos' = KeepOthers(videos, Named(asked'), 0)
          /\ Len(videos') = Len(videos) - Cardinality(Named(asked'))
          /\ videosFile' = videos'
          /\ reply'.msg = "deleted"
     /\ (reply'.pool = "images" /\ NamesValidSet(asked', Len(images))) =>
          /\ images' = KeepOthers(images, Named(asked'), 0)
          /\ Len(images') = Len(images) - Cardinality(Named(asked'))
          /\ imagesFile' = images'
          /\ reply'.msg = "deleted"]_vars

\* the first and the last of MaxPool videos were deleted by a comma list and
\* the one between them stayed
C11_Witness ==
  /\ asked.form = "list"
  /\ Named(asked) = {0, MaxPool - 1}
  /\ reply.msg = "deleted" /\ reply.pool = "videos"
  /\ Len(videos) = MaxPool - Cardinality(Named(asked))
  /\ Len(videos) > 0

\* the index of a single delete is not a position of a pool of len entries
OutOfRange(text, len) == text.pnan \/ text.val < 0 \/ text.val >= len

\* C12: a single delete whose index is outside [0, len), and a multi-delete
\* that names an index out of range, remove nothing: pool and file stay.
C12_InvalidDeleteRemovesNothing ==
  [][/\ (reply'.pool = "videos" /\ asked'.form = "one"
           /\ OutOfRange(asked'.a, Len(videos))) =>
          (videos' = videos /\ videosFile' = videosFile)
     /\ (reply'.pool = "images" /\ asked'.form = "one"
           /\ OutOfRange(asked'.a, Len(images))) =>
          (images' = images /\ imagesFile' = imagesFile)
     /\ (reply'.pool = "videos" /\ asked'.form \in {"range", "list", "single"}
           /\ \E t \in TextsOf(asked') : OutOfRange([t EXCEPT !.val = @ - 1], Len(videos))) =>
          (videos' = videos /\ videosFile' = videosFile)
     /\ (reply'.pool = "images" /\ asked'.form \in {"range", "list", "single"}
           /\ \E t \in TextsOf(asked') : OutOfRange([t EXCEPT !.val = @ - 1], Len(images))) =>
          (images' = images /\ imagesFile' = imagesFile)]_vars

\* the request names positions of a pool of len entries, some perhaps twice
NamesValid(req, len) ==
  /\ req.form \in {"range", "list", "single"}
  /\ \A t \in TextsOf(req) : IsNumber(t)
  /\ Named(req) # {}
  /\ \A i \in Named(req) : i >= 0 /\ i < len

\* C24: a multi-delete of valid indices, a comma list that names an index more
\* than once included, removes the entries at the named positions only: as many
\* entries go as distinct positions are named, and every other entry stays.
C24_RepeatedIndexRemovesNamedOnly ==
  [][/\ (reply'.pool = "videos" /\ NamesValid(asked', Len(videos))) =>
          /\ Len(videos') = Len(videos) - Cardinality(Named(asked'))
          /\ \A i \in 0..(Len(videos) - 1) :
               i \notin Named(asked') => videos[i + 1] \in Elems(videos')
     /\ (reply'.pool = "images" /\ NamesValid(asked', Len(images))) =>
          /\ Len(images') = Len(images) - Cardinality(Named(asked'))
          /\ \A i \in 0..(Len(images) - 1) :
               i \notin Named(asked') => images[i + 1] \in Elems(images')]_vars

(***************************************************************************)
(* SpecTick: the timers of two chats firing, with dispatches that may fail *)
(***************************************************************************)
TickPhoto == \E id \in ImageIds : OnPhoto(TRUE, id, TRUE) /\ UNCHANGED gvars
TickAction ==
  \E c \in Chats : \E m \in SelectorsFor(c) : OnAction(c, m) /\ UNCHANGED gvars
TickText ==
  \E c \in Chats : OnText(c, Token(MaxInterval), TRUE) /\ UNCHANGED gvars
TickFire ==
  \E j \in jobs, r \in 0..(NumIds + NumIds - 1), delivered \in BOOLEAN :
    TickOutcome(j, r, delivered) /\ UNCHANGED gvars

NextTick == TickPhoto \/ TickAction \/ TickText \/ TickFire

SpecTick == Init /\ [][NextTick]_vars

\* C13: a tick whose dispatch fails leaves the timers and the registry as they
\* were, moves the chat's tracker as a selection with a delivered dispatch
\* moves it, and leaves the tracker of every other chat alone.
C13_DispatchFailureChangesNothing ==
  [][\A c \in Chats :
       (reply'.msg = "send_error" /\ reply'.chat = c) =>
         /\ jobs' = jobs
         /\ JobsOf(c) # {}
         /\ schedules' = schedules
         /\ scheduleData' = scheduleData
         /\ schedulesFile' = schedulesFile
         /\ \E r \in 0..(NumIds + NumIds - 1) :
              LET list == CandidatesOf(c)
                  res  == GetNextUnsentMedia(sentMediaTracking, c, list, r)
              IN  /\ r < DrawSize(sentMediaTracking, c, list)
                  /\ sentMediaTracking' = res.tracking
                  /\ sent' = {[chat |-> c, id |-> res.media.id,
                               type |-> res.media.type]}
         /\ \A d \in Chats \ {c} :
              /\ Has(sentMediaTracking', d) = Has(sentMediaTracking, d)
              /\ TrackedOf(sentMediaTracking', d) = TrackedOf(sentMediaTracking, d)]_vars

\* a dispatch to a chat has just failed while both chats have a timer and a
\* tracker with deliveries
C13_Witness ==
  /\ reply.msg = "send_error"
  /\ \A c \in Chats : JobsOf(c) # {} /\ TrackedOf(sentMediaTracking, c) # {}

\* C14: a tick that finds the chat's candidate list empty selects and dispatches
\* nothing, leaves every tracker as it was and leaves the timers armed.
C14_EmptyListTickIsNoOp ==
  [][\A c \in Chats :
       (reply'.msg \in TickMsgs /\ reply'.chat = c /\ Len(CandidatesOf(c)) = 0) =>
         /\ reply'.msg = "no_media"
         /\ sent' = {}
         /\ sentMediaTracking' = sentMediaTracking
         /\ jobs' = jobs
         /\ schedules' = schedules
         /\ scheduleData' = scheduleData
         /\ schedulesFile' = schedulesFile]_vars

\* a tick has just found no media for a chat whose tracker holds deliveries of
\* its earlier schedule
C14_Witness ==
  /\ reply.msg = "no_media"
  /\ JobsOf(reply.chat) # {}
  /\ TrackedOf(sentMediaTracking, reply.chat) # {}

(***************************************************************************)
(* SpecClock: one chat's timer against the minutes of the clock            *)
(***************************************************************************)
\* the last minute of new schedule.Range(0, 59, interval) (line 111)
LastMinute == 59
\* the minutes of an hour: 0..LastMinute
HourLength == LastMinute + 1
\* an interval that does not divide the hour
OddInterval == 7
\* an interval longer than the hour
LongInterval == 61
\* the clock of SpecClock runs 0..MaxMinute: two hours and a few minutes
MaxMinute == 125

\* the minute m of the hour is in new schedule.Range(0, LastMinute, interval)
InRange(m, interval) == m >= 0 /\ m <= LastMinute /\ m % interval = 0

\* the rule { minute: Range } of the job matches the minute t of the clock
Due(job, t) == InRange(t % HourLength, job.interval)

\* the job was armed in this minute or has fired in it
Handled(job, t) == fired[job.chatId].id = job.id /\ fired[job.chatId].at = t

ClockIntervals == {1, MaxInterval, OddInterval, LongInterval}

ClockFrame ==
  UNCHANGED <<hist, steady, cycleIds, stopped, replaced, failed, asked, rebooted>>

ClockAction == OnAction(Watched, "videos") /\ UNCHANGED fired /\ ClockFrame
ClockText ==
  \E n \in ClockIntervals :
    /\ OnText(Watched, Token(n), TRUE)
    /\ fired' = IF reply'.msg = "scheduled"
                THEN [fired EXCEPT ![Watched] =
                        [id |-> schedules'[Watched], at |-> now, tick |-> FALSE]]
                ELSE fired
    /\ ClockFrame
\* node-schedule invokes a job once in every minute its rule matches, the
\* minute it was armed in excepted
ClockTick ==
  \E j \in jobs :
    /\ Due(j, now)
    /\ ~Handled(j, now)
    /\ Tick(j, 0)
    /\ fired' = [fired EXCEPT ![j.chatId] = [id |-> j.id, at |-> now, tick |-> TRUE]]
    /\ ClockFrame
\* the next minute begins once every job due in this one was invoked
ClockMinute ==
  /\ now < MaxMinute
  /\ \A j \in jobs : Due(j, now) => Handled(j, now)
  /\ now' = now + 1
  /\ reply' = Msg(Admin, "time")
  /\ sent' = {}
  /\ UNCHANGED <<videos, images, schedules, scheduleData, sentMediaTracking,
                 videosFile, imagesFile, schedulesFile, jobs, session, fired>>
  /\ ClockFrame

NextClock == ClockAction \/ ClockText \/ ClockMinute \/ ClockTick

SpecClock == Init /\ [][NextClock]_vars

\* C17: two consecutive ticks of a chat's timer are as many minutes apart as
\* the interval the timer was armed with.
C17_TicksAreIntervalApart ==
  [][\A c \in Chats : \A j \in JobsOf(c) :
       (reply'.msg \in TickMsgs /\ reply'.chat = c
          /\ fired[c].tick /\ fired[c].id = j.id) =>
         now - fired[c].at = j.interval]_vars

(***************************************************************************)
(* SpecReboot: one chat drawing from stable pools across process restarts  *)
(***************************************************************************)
\* a start remembers the chats that had deliveries in their tracker; a chat is
\* forgotten when it stops or when its history begins anew
RebootStep ==
  rebooted' = IF reply'.msg = "bot_running"
              THEN {c \in Chats : TrackedOf(sentMediaTracking, c) # {}}
              ELSE {c \in rebooted :
                      /\ ~(reply'.chat = c /\ reply'.msg \in StopMsgs)
                      /\ ~(hist[c] # <<>> /\ hist'[c] = <<>>)}

RebootFrame == UNCHANGED <<cycleIds, stopped, replaced, failed, asked, fired>>

RebootAction ==
  \E m \in MediaTypes : OnAction(Watched, m) /\ HistStep /\ RebootStep /\ RebootFrame
RebootText ==
  OnText(Watched, Token(MaxInterval), TRUE) /\ HistStep /\ RebootStep /\ RebootFrame
RebootStop == OnStop(Watched, TRUE) /\ HistStep /\ RebootStep /\ RebootFrame
RebootTick ==
  \E j \in jobs, r \in 0..(NumIds + NumIds - 1) :
    /\ Len(hist[j.chatId]) < Len(MediaToSend(j.mediaType)) + MaxExtra
    /\ Tick(j, r)
    /\ HistStep
    /\ RebootStep
    /\ RebootFrame
RebootRestart == Restart /\ HistStep /\ RebootStep /\ RebootFrame

NextReboot ==
  RebootAction \/ RebootText \/ RebootStop \/ RebootTick \/ RebootRestart

SpecReboot == InitSel /\ [][NextReboot]_vars

\* C19: a start leaves no tracker with a delivery in it, whatever was delivered
\* before; a chat that had deliveries before the start draws, with its
\* candidate list of n entries unchanged, n pairwise distinct entries that cover
\* the list.
C19_RestartBeginsFreshCycle ==
  /\ reply.msg = "bot_running" =>
       \A c \in Chats : TrackedOf(sentMediaTracking, c) = {} /\ hist[c] = <<>>
  /\ \A c \in rebooted :
       LET list == CandidatesOf(c)
           n    == Len(list)
           h    == hist[c]
           m    == IF Len(h) < n THEN Len(h) ELSE n
       IN  (steady[c] /\ n > 0) =>
             /\ \A p, q \in 1..m : p # q => h[p] # h[q]
             /\ \A p \in 1..m : h[p] \in Elems(list)
             /\ Len(h) >= n => {h[p] : p \in 1..n} = Elems(list)

\* a chat that had deliveries before the start has drawn its whole list of
\* both pools since
C19_Witness ==
  \E c \in rebooted :
    /\ steady[c]
    /\ Len(CandidatesOf(c)) > NumIds
    /\ Len(hist[c]) >= Len(CandidatesOf(c))

\* C20: a selection records the position of the entry it returns: after a tick
\* that dispatched an entry, the chat's tracker holds that entry's position in
\* the candidate list, the draw after an exhausted cycle included.
C20_SelectionRecordsPosition ==
  [][\A c \in Chats : \A m \in SentTo(sent', c) :
       IndexOf(CandidatesOf(c), [id |-> m.id, type |-> m.type])
         \in TrackedOf(sentMediaTracking', c)]_vars

=============================================================================
